---- MODULE Spec2Model ----
(***************************************************************************)
(* Skiplist-based inverted index and AND-query resolver (src/v1.py).       *)
(*                                                                         *)
(* Strings are sequences of one-character strings.  Node references are    *)
(* integers: Header is the header node, None is Python's None, and a       *)
(* positive integer is a node allocated by insert_word; nodes maps the     *)
(* references in use to the node objects.  The program never compares or   *)
(* orders references, so which fresh reference an allocation returns is    *)
(* immaterial; NewRef fixes one.  A Python list index i is the sequence    *)
(* index i + 1.                                                            *)
(***************************************************************************)
EXTENDS Integers, Sequences, FiniteSets, TLC

VARIABLES
  skiplist,   \* the SkipList object: max_level, probability, header, level, nodes
  documents,  \* InformationRetrievalSystem.documents: doc_id -> doc_name, as a sequence
  doc_id,     \* load_documents: the id the next document gets
  phase,      \* where the program is: "loading", "ready", "crashed"; "skiplist"
              \* when the SkipList is used on its own
  read,       \* load_documents: the number of lines read from the file
  op,         \* the last method called, with its arguments
  ret,        \* what it returned, or that it raised
  inserted,   \* history: the (word, document) pairs insert_word has inserted
  calls,      \* history: the insert_word calls made by the last operation
  contents    \* history: the content indexed for each document

vars == <<skiplist, documents, doc_id, phase, read, op, ret, inserted, calls, contents>>

-----------------------------------------------------------------------------
(* Bounds of the model *)

\* ceiling on the skiplist's max_level used by the model (the program's default is 16)
MaxLevel == 2

\* number of input lines the loader reads before the file ends
MaxLines == 2

-----------------------------------------------------------------------------
(* Characters and strings *)

TAB == "\t"

SPACE == " "

\* code points, as Python's str comparison uses them
Ord(c) ==
  CASE c = TAB -> 9
    [] c = SPACE -> 32
    [] c = "!" -> 33
    [] c = "-" -> 45
    [] c = "0" -> 48
    [] c = "1" -> 49
    [] c = "2" -> 50
    [] c = "3" -> 51
    [] c = "4" -> 52
    [] c = "A" -> 65
    [] c = "B" -> 66
    [] c = "D" -> 68
    [] c = "_" -> 95
    [] c = "a" -> 97
    [] c = "b" -> 98
    [] c = "c" -> 99
    [] c = "o" -> 111

\* str < str: lexicographic by code point, a proper prefix is smaller
RECURSIVE StrLess(_, _)
StrLess(s, t) ==
  IF t = <<>> THEN FALSE
  ELSE IF s = <<>> THEN TRUE
  ELSE IF Head(s) = Head(t) THEN StrLess(Tail(s), Tail(t))
  ELSE Ord(Head(s)) < Ord(Head(t))

StrLeq(s, t) == s = t \/ StrLess(s, t)

\* str.lower() on one character
LowerChar(c) ==
  CASE c = "A" -> "a"
    [] c = "B" -> "b"
    [] c = "D" -> "d"
    [] OTHER -> c

Lower(s) == [i \in 1..Len(s) |-> LowerChar(s[i])]

IsSpace(c) == c \in {SPACE, TAB}

\* the character class [a-z0-9] of the cleaning regular expression
IsAlnumLower(c) == c \in {"a", "b", "c", "d", "o", "0", "1", "2", "3", "4"}

\* str.strip(): drop leading and trailing whitespace
RECURSIVE LStrip(_)
LStrip(s) == IF s # <<>> /\ IsSpace(Head(s)) THEN LStrip(Tail(s)) ELSE s

RECURSIVE RStrip(_)
RStrip(s) ==
  IF s # <<>> /\ IsSpace(s[Len(s)]) THEN RStrip(SubSeq(s, 1, Len(s) - 1)) ELSE s

Strip(s) == RStrip(LStrip(s))

\* str.split(): split on runs of whitespace, no empty pieces
RECURSIVE SplitWS(_, _)
SplitWS(s, cur) ==
  IF s = <<>> THEN (IF cur = <<>> THEN <<>> ELSE <<cur>>)
  ELSE IF IsSpace(Head(s))
       THEN (IF cur = <<>> THEN <<>> ELSE <<cur>>) \o SplitWS(Tail(s), <<>>)
       ELSE SplitWS(Tail(s), Append(cur, Head(s)))

Split(s) == SplitWS(s, <<>>)

\* str.split('\t'): split on every tab, empty pieces kept
RECURSIVE SplitTabFrom(_, _)
SplitTabFrom(s, cur) ==
  IF s = <<>> THEN <<cur>>
  ELSE IF Head(s) = TAB THEN <<cur>> \o SplitTabFrom(Tail(s), <<>>)
       ELSE SplitTabFrom(Tail(s), Append(cur, Head(s)))

SplitTab(s) == SplitTabFrom(s, <<>>)

\* set(l) for a list
ToSet(l) == {l[i] : i \in 1..Len(l)}

\* re.sub(r'[^a-z0-9]', '', word)
RECURSIVE CleanWord(_)
CleanWord(w) ==
  IF w = <<>> THEN <<>>
  ELSE IF IsAlnumLower(Head(w)) THEN <<Head(w)>> \o CleanWord(Tail(w))
       ELSE CleanWord(Tail(w))

-----------------------------------------------------------------------------
(* Inputs *)

\* the program's defaults: SkipList(max_level=16, probability=0.5); the model
\* builds the index with max_level = MaxLevel
Probability == 50

\* values random.random() can return, in hundredths
RandomDraws == {0, 99}

\* the draws one random_level call can read, at most max_level + 1 of them:
\* n draws below the probability, then draws above it
DrawSeqs(max_level) ==
  LET len == (IF max_level < 0 THEN 0 ELSE max_level) + 1 IN
  {[i \in 1..len |-> IF i <= n THEN 0 ELSE 99] : n \in 0..len}

\* words and documents given to the SkipList methods directly
Words == {<<"a">>, <<"a", "b">>, <<"b">>}

\* words looked up: the inserted ones and one that never is
Lookups == Words \cup {<<"a", "a">>}

\* (start_word, end_word) pairs of range_search
Ranges ==
  { <<<<"a">>, <<"b">>>>,
    <<<<"a">>, <<"a">>>>,
    <<<<"a", "a">>, <<"a", "c">>>>,
    <<<<"a", "b">>, <<"c">>>>,
    <<<<>>, <<"a", "a">>>>,
    <<<<"b">>, <<"a">>>>,
    <<<<"c">>, <<"c">>>> }

Docs == {0, 1}

\* lines of the input file (without the line terminator)
Lines ==
  { <<SPACE>>,
    <<"-">>,
    <<"B", "-", "a", "!">>,
    <<"a", SPACE, "b">>,
    <<"a", SPACE, "a">>,
    <<"A", TAB, "b">>,
    <<"b", TAB, "-", SPACE, "A">> }

\* query strings: the lines, the contents of the tabbed lines, and others
Queries ==
  Lines \cup
  { <<"b">>,
    <<"-", SPACE, "A">>,
    <<"b", SPACE, "a">>,
    <<"a", SPACE, "c">>,
    <<"b", "a">>,
    <<"!", SPACE, "-">>,
    <<>> }

\* the keys the inputs can put in the index
Keys == Words \cup UNION {{CleanWord(w) : w \in ToSet(Split(Lower(l)))} : l \in Lines}

-----------------------------------------------------------------------------
(* SkipListNode and SkipList *)

None == -1

Header == 0

\* SkipListNode(key, level)
SkipListNode(key, level) ==
  [key |-> key, forward |-> [i \in 1..(level + 1) |-> None], value |-> {}]

\* the constructor starting the current level at max_level
NewSkipList_FullLevel(max_level, probability) ==
  [max_level |-> max_level,
   probability |-> probability,
   header |-> SkipListNode(<<>>, max_level),
   level |-> max_level,
   nodes |-> <<>>]

\* SkipList(max_level, probability); probability in hundredths
NewSkipList(max_level, probability) ==
  [max_level |-> max_level,
   probability |-> probability,
   header |-> SkipListNode(<<>>, max_level),
   level |-> 0,
   nodes |-> <<>>]

Node(sl, n) == IF n = Header THEN sl.header ELSE sl.nodes[n]

SetForward(sl, n, i, v) ==
  IF n = Header THEN [sl EXCEPT !.header.forward[i + 1] = v]
  ELSE [sl EXCEPT !.nodes[n].forward[i + 1] = v]

\* the outcome "an exception was raised" of a cursor computation
Raise == -2

\* the promotion loop without "and level < self.max_level": it goes on for as
\* long as the draws are below the probability (here: until the draws end)
RECURSIVE RandomLevelFrom_NoCap(_, _, _)
RandomLevelFrom_NoCap(sl, draws, level) ==
  IF level + 1 <= Len(draws) /\ draws[level + 1] < sl.probability
  THEN RandomLevelFrom_NoCap(sl, draws, level + 1)
  ELSE level

\* random_level(), reading random.random() from draws (hundredths, 0..99)
RECURSIVE RandomLevelFrom(_, _, _)
RandomLevelFrom(sl, draws, level) ==
  IF draws[level + 1] < sl.probability /\ level < sl.max_level
  THEN RandomLevelFrom(sl, draws, level + 1)
  ELSE level

random_level(sl, draws) == RandomLevelFrom(sl, draws, 0)

\* the descent comparing with <= where the code has <
KeyLess_Leq(key, word) == StrLeq(key, word)

\* the descent comparing the word with the key instead of the key with the word
KeyLess_Swapped(key, word) == StrLess(word, key)

\* key < word, the comparison of the descent loops
KeyLess(key, word) == StrLess(key, word)

\* while current.forward[i] is not None and current.forward[i].key < word
RECURSIVE Advance(_, _, _, _)
Advance(sl, current, i, word) ==
  IF i + 1 > Len(Node(sl, current).forward) THEN Raise
  ELSE LET nxt == Node(sl, current).forward[i + 1] IN
       IF nxt # None /\ KeyLess(Node(sl, nxt).key, word)
       THEN Advance(sl, nxt, i, word)
       ELSE current

\* for i in range(self.level, -1, -1): advance, then update[i] = current
RECURSIVE FindPosition(_, _, _, _, _)
FindPosition(sl, current, i, word, update) ==
  IF i < 0 THEN [current |-> current, update |-> update]
  ELSE LET c == Advance(sl, current, i, word) IN
       IF c = Raise \/ i + 1 > Len(update)
       THEN [current |-> Raise, update |-> update]
       ELSE FindPosition(sl, c, i - 1, word, [update EXCEPT ![i + 1] = c])

\* the same descent without the update vector (search_word, range_search)
RECURSIVE Descend(_, _, _, _)
Descend(sl, current, i, word) ==
  IF i < 0 THEN current
  ELSE LET c == Advance(sl, current, i, word) IN
       IF c = Raise THEN Raise ELSE Descend(sl, c, i - 1, word)

\* the header entered for range(self.level + 1, new_level) only, leaving
\* update[new_level] unset
RaiseUpdate_Short(sl, update, new_level) ==
  IF new_level > sl.level
  THEN [j \in 1..Len(update) |->
          IF sl.level + 1 <= j - 1 /\ j - 1 < new_level THEN Header ELSE update[j]]
  ELSE update

\* if new_level > self.level: update[level+1 .. new_level] = header
RaiseUpdate(sl, update, new_level) ==
  IF new_level > sl.level
  THEN [j \in 1..Len(update) |->
          IF sl.level + 1 <= j - 1 /\ j - 1 <= new_level THEN Header ELSE update[j]]
  ELSE update

\* the relinking loop starting at level 1: range(1, new_level + 1)
RECURSIVE Splice_FromOne(_, _, _, _, _)
Splice_FromOne(sl, new_node, update, i, new_level) ==
  IF i > new_level THEN [sl |-> sl, raised |-> FALSE]
  ELSE IF i = 0 THEN Splice_FromOne(sl, new_node, update, 1, new_level)
  ELSE IF i + 1 > Len(update) THEN [sl |-> sl, raised |-> TRUE]
  ELSE IF update[i + 1] = None THEN [sl |-> sl, raised |-> TRUE]
  ELSE IF i + 1 > Len(Node(sl, update[i + 1]).forward) THEN [sl |-> sl, raised |-> TRUE]
  ELSE LET succ == Node(sl, update[i + 1]).forward[i + 1]
           sl1 == SetForward(sl, new_node, i, succ)
           sl2 == SetForward(sl1, update[i + 1], i, new_node)
       IN Splice_FromOne(sl2, new_node, update, i + 1, new_level)

\* for i in range(new_level + 1): relink update[i].forward[i] through new_node
RECURSIVE Splice(_, _, _, _, _)
Splice(sl, new_node, update, i, new_level) ==
  IF i > new_level THEN [sl |-> sl, raised |-> FALSE]
  ELSE IF i + 1 > Len(update) THEN [sl |-> sl, raised |-> TRUE]
  ELSE IF update[i + 1] = None THEN [sl |-> sl, raised |-> TRUE]
  ELSE IF i + 1 > Len(Node(sl, update[i + 1]).forward) THEN [sl |-> sl, raised |-> TRUE]
  ELSE LET succ == Node(sl, update[i + 1]).forward[i + 1]
           sl1 == SetForward(sl, new_node, i, succ)
           sl2 == SetForward(sl1, update[i + 1], i, new_node)
       IN Splice(sl2, new_node, update, i + 1, new_level)

\* self.level = new_level without the comparison
RaisedLevel_Always(sl, new_level) == new_level

\* if new_level > self.level: self.level = new_level
RaisedLevel(sl, new_level) == IF new_level > sl.level THEN new_level ELSE sl.level

\* the reference of a newly allocated node: one not in use
NewRef(sl, word) ==
  LET rank == 1 + Cardinality({w \in Keys : StrLess(w, word)}) IN
  IF rank \notin DOMAIN sl.nodes THEN rank
  ELSE CHOOSE n \in 1..(Cardinality(Keys) + Cardinality(DOMAIN sl.nodes) + 1) :
         /\ n \notin DOMAIN sl.nodes
         /\ \A m \in DOMAIN sl.nodes : m < n

\* the new node left without the document: new_node.value.add(document) missing
FirstPosting_Empty(document) == {}

\* new_node.value.add(document) on the empty set of a new node
FirstPosting(document) == {document}

\* the "create new node" branch of insert_word
CreateNode(sl, word, document, update, new_level) ==
  IF new_level > sl.level /\ new_level + 1 > Len(update)
  THEN [sl |-> sl, raised |-> TRUE, created |-> FALSE, new_level |-> new_level]
  ELSE LET update1 == RaiseUpdate(sl, update, new_level)
           sl1 == [sl EXCEPT !.level = RaisedLevel(sl, new_level)]
           new_node == [SkipListNode(word, new_level) EXCEPT
                          !.value = @ \cup FirstPosting(document)]
           ref == NewRef(sl, word)
           sl2 == [sl1 EXCEPT !.nodes = [n \in DOMAIN @ \cup {ref} |->
                                           IF n = ref THEN new_node ELSE @[n]]]
           r == Splice(sl2, ref, update1, 0, new_level)
       IN [sl |-> r.sl, raised |-> r.raised, created |-> TRUE, new_level |-> new_level]

\* the posting set replaced instead of extended
AddDocument_Replace(sl, current, document) ==
  [sl EXCEPT !.nodes[current].value = {document}]

\* the "word already exists" branch: current.value.add(document)
AddDocument(sl, current, document) ==
  [sl EXCEPT !.nodes[current].value = @ \cup {document}]

\* insert_word(word, document); draws feeds random_level
insert_word(sl, word, document, draws) ==
  LET pos == FindPosition(sl, Header, sl.level, word,
                          [j \in 1..(sl.max_level + 1) |-> None])
  IN IF pos.current = Raise \/ Len(Node(sl, pos.current).forward) < 1
     THEN [sl |-> sl, raised |-> TRUE, created |-> FALSE, new_level |-> None]
     ELSE LET current == Node(sl, pos.current).forward[1] IN
          IF current # None /\ Node(sl, current).key = word
          THEN [sl |-> AddDocument(sl, current, document), raised |-> FALSE,
                created |-> FALSE, new_level |-> None]
          ELSE CreateNode(sl, word, document, pos.update, random_level(sl, draws))

\* return current.value: the posting set of the node itself handed out
ResultAlias_Shared(current) == current

\* return list(current.value): the node whose posting set the returned object
\* is, or None when the returned object is a new list
ResultAlias(current) == None

\* search_word(word): the documents of the returned list, and what it aliases
search_word(sl, word) ==
  LET c == Descend(sl, Header, sl.level, word)
  IN IF c = Raise \/ Len(Node(sl, c).forward) < 1
     THEN [raised |-> TRUE, docs |-> {}, alias |-> None]
     ELSE LET current == Node(sl, c).forward[1] IN
          IF current # None /\ Node(sl, current).key = word
          THEN [raised |-> FALSE, docs |-> Node(sl, current).value,
                alias |-> ResultAlias(current)]
          ELSE [raised |-> FALSE, docs |-> {}, alias |-> None]

\* sorted(list(s)) for a set of document ids
RECURSIVE SortedList(_)
SortedList(S) ==
  IF S = {} THEN <<>>
  ELSE LET m == CHOOSE x \in S : \A y \in S : x <= y
       IN <<m>> \o SortedList(S \ {m})

\* the lists list(s) can be: the elements of s once each, in any order
ListsOf(S) ==
  {l \in [1..Cardinality(S) -> S] : \A i, j \in 1..Cardinality(S) : i # j => l[i] # l[j]}

\* the collecting loop with an exclusive upper bound
UpTo_Exclusive(key, end_word) == StrLess(key, end_word)

\* current.key <= end_word, the bound of the collecting loop
UpTo(key, end_word) == StrLeq(key, end_word)

\* current.key >= start_word
FromLow(key, start_word) == StrLeq(start_word, key)

\* while current is not None and current.key <= end_word: collect
\* (results.extend reads the set in some order; set(results) forgets it)
RECURSIVE Collect(_, _, _, _, _)
Collect(sl, current, start_word, end_word, results) ==
  IF current # None /\ UpTo(Node(sl, current).key, end_word)
  THEN Collect(sl, Node(sl, current).forward[1], start_word, end_word,
               IF FromLow(Node(sl, current).key, start_word)
               THEN results \o SortedList(Node(sl, current).value)
               ELSE results)
  ELSE results

\* return list(set(results)): the lists it can be
RangeResult(results) == ListsOf(ToSet(results))

\* range_search(start_word, end_word): the lists it can return
range_search(sl, start_word, end_word) ==
  LET c == Descend(sl, Header, sl.level, start_word)
  IN IF c = Raise \/ Len(Node(sl, c).forward) < 1
     THEN [raised |-> TRUE, lists |-> {<<>>}]
     ELSE LET results == Collect(sl, Node(sl, c).forward[1], start_word, end_word, <<>>)
          IN [raised |-> FALSE, lists |-> RangeResult(results)]

-----------------------------------------------------------------------------
(* InformationRetrievalSystem *)

\* f"Doc_{doc_id}"
DigitChar(n) ==
  CASE n = 0 -> "0" [] n = 1 -> "1" [] n = 2 -> "2" [] n = 3 -> "3" [] OTHER -> "4"

DefaultName(id) == <<"D", "o", "c", "_", DigitChar(id)>>

\* parts = line.split('\t'): the (doc_name, content) of a stripped line
ParseLine(line, id) ==
  LET parts == SplitTab(line) IN
  IF Len(parts) >= 2
  THEN [doc_name |-> Strip(parts[1]), content |-> Strip(parts[2])]
  ELSE [doc_name |-> DefaultName(id), content |-> line]

\* the indexer splitting without lowercasing
IndexWordsOf_NoLower(content) == Split(content)

\* words = content.lower().split()
IndexWordsOf(content) == Split(Lower(content))

\* clean_word = re.sub(r'[^a-z0-9]', '', word) in load_documents
IndexClean(word) == CleanWord(word)

\* for word in words: clean it and insert_word(clean_word, doc_id) when non-empty;
\* rnd[k] feeds the random_level of the k-th word, acc holds the calls made
RECURSIVE IndexLoop(_, _, _, _, _, _)
IndexLoop(sl, words, id, rnd, k, acc) ==
  IF k > Len(words) THEN [sl |-> sl, raised |-> FALSE, calls |-> acc]
  ELSE LET clean_word == IndexClean(words[k]) IN
       IF clean_word = <<>> THEN IndexLoop(sl, words, id, rnd, k + 1, acc)
       ELSE LET r == insert_word(sl, clean_word, id, rnd[k]) IN
            IF r.raised
            THEN [sl |-> r.sl, raised |-> TRUE, calls |-> Append(acc, <<clean_word, id>>)]
            ELSE IndexLoop(r.sl, words, id, rnd, k + 1, Append(acc, <<clean_word, id>>))

\* query_words = query.lower().split()
QueryWordsOf(query) == Split(Lower(query))

\* the query word looked up as typed, without the cleaning
QueryClean_Keep(word) == word

\* clean_word = re.sub(r'[^a-z0-9]', '', word) in search
QueryClean(word) == CleanWord(word)

\* all_results = None
NoResults == [none |-> TRUE, docs |-> {}]

\* the result sets united instead of intersected
Narrow_Union(all_results, docs) ==
  IF all_results.none THEN [none |-> FALSE, docs |-> docs]
  ELSE [none |-> FALSE, docs |-> all_results.docs \cup docs]

\* the result set replaced by the documents of the last word
Narrow_Last(all_results, docs) == [none |-> FALSE, docs |-> docs]

\* all_results = set(docs), or all_results.intersection(set(docs))
Narrow(all_results, docs) ==
  IF all_results.none THEN [none |-> FALSE, docs |-> docs]
  ELSE [none |-> FALSE, docs |-> all_results.docs \cap docs]

\* for word in query_words: clean, skip when empty, search_word, narrow
RECURSIVE SearchLoop(_, _, _, _)
SearchLoop(sl, query_words, all_results, lookups) ==
  IF query_words = <<>>
  THEN [raised |-> FALSE, all_results |-> all_results, lookups |-> lookups]
  ELSE LET clean_word == QueryClean(Head(query_words)) IN
       IF clean_word = <<>>
       THEN SearchLoop(sl, Tail(query_words), all_results, lookups)
       ELSE LET found == search_word(sl, clean_word) IN
            IF found.raised
            THEN [raised |-> TRUE, all_results |-> all_results,
                  lookups |-> Append(lookups, clean_word)]
            ELSE SearchLoop(sl, Tail(query_words), Narrow(all_results, found.docs),
                            Append(lookups, clean_word))

\* the returned list: [] when all_results is None, else sorted(list(all_results))
FinalResults(all_results) ==
  IF all_results.none THEN <<>> ELSE SortedList(all_results.docs)

\* search(query)
search(sl, query) ==
  LET r == SearchLoop(sl, QueryWordsOf(query), NoResults, <<>>) IN
  [raised |-> r.raised,
   val |-> IF r.raised THEN <<>> ELSE FinalResults(r.all_results),
   lookups |-> r.lookups]

\* self.documents[doc_id] = doc_name
RegisterDocument(docs, id, doc_name) ==
  [k \in DOMAIN docs \cup {id} |-> IF k = id THEN doc_name ELSE docs[k]]

\* the counter incremented for every line read, blank or not
NextDocId_EveryLine(id, blank) == id + 1

\* the doc_id after a line: "continue" leaves it for a blank line, doc_id += 1
\* ends the indexing of any other line
NextDocId(id, blank) == IF blank THEN id ELSE id + 1

\* display_results after search: doc_name = self.documents[doc_id] for each
\* doc_id found, a KeyError when one is not a key of the registry
DisplayNames(docs, doc_ids) ==
  IF \E i \in 1..Len(doc_ids) : doc_ids[i] \notin DOMAIN docs
  THEN [key_error |-> TRUE, names |-> <<>>]
  ELSE [key_error |-> FALSE, names |-> [i \in 1..Len(doc_ids) |-> docs[doc_ids[i]]]]

\* the number of words load_documents finds on a line: one level draw each
NumWords(raw) ==
  IF Strip(raw) = <<>> THEN 0 ELSE Len(IndexWordsOf(ParseLine(Strip(raw), 0).content))

-----------------------------------------------------------------------------
(* State and operations *)

NoOp == [name |-> "init", word |-> <<>>, word2 |-> <<>>, doc |-> None,
         created |-> FALSE, new_level |-> None]

NoRet == [raised |-> FALSE, val |-> <<>>, lookups |-> <<>>, alias |-> None,
          key_error |-> FALSE, names |-> <<>>]

\* InformationRetrievalSystem.__init__ up to the call of load_documents
Init ==
  /\ skiplist = NewSkipList(MaxLevel, Probability)
  /\ documents = << >>
  /\ doc_id = 0
  /\ phase = "loading"
  /\ read = 0
  /\ op = NoOp
  /\ ret = NoRet
  /\ inserted = {}
  /\ calls = <<>>
  /\ contents = <<>>

\* one iteration of "for line in file" in load_documents
LoadLine(raw, rnd) ==
  /\ phase = "loading"
  /\ read < MaxLines
  /\ read' = read + 1
  /\ LET line == Strip(raw) IN
     IF line = <<>>
     THEN /\ op' = [NoOp EXCEPT !.name = "blank_line", !.word = raw]
          /\ calls' = <<>>
          /\ doc_id' = NextDocId(doc_id, TRUE)
          /\ UNCHANGED <<skiplist, documents, phase, ret, inserted, contents>>
     ELSE \E p \in {ParseLine(line, doc_id)} :
          \E r \in {IndexLoop(skiplist, IndexWordsOf(p.content), doc_id, rnd, 1, <<>>)} :
             /\ documents' = RegisterDocument(documents, doc_id, p.doc_name)
             /\ contents' = Append(contents, p.content)
             /\ skiplist' = r.sl
             /\ calls' = r.calls
             /\ inserted' = inserted \cup
                              {r.calls[i] : i \in 1..(Len(r.calls) - (IF r.raised THEN 1 ELSE 0))}
             /\ doc_id' = IF r.raised THEN doc_id ELSE NextDocId(doc_id, FALSE)
             /\ phase' = IF r.raised THEN "crashed" ELSE phase
             /\ op' = [NoOp EXCEPT !.name = "load_line", !.word = raw, !.word2 = p.content,
                                   !.doc = doc_id]
             /\ ret' = [NoRet EXCEPT !.raised = r.raised]

\* the file is exhausted: load_documents and __init__ return
EndOfFile ==
  /\ phase = "loading"
  /\ phase' = "ready"
  /\ op' = [NoOp EXCEPT !.name = "end_of_file"]
  /\ calls' = <<>>
  /\ UNCHANGED <<skiplist, documents, doc_id, read, ret, inserted, contents>>

\* open() raises FileNotFoundError, which load_documents catches
FileNotFound ==
  /\ phase = "loading"
  /\ read = 0
  /\ phase' = "ready"
  /\ op' = [NoOp EXCEPT !.name = "file_not_found"]
  /\ calls' = <<>>
  /\ UNCHANGED <<skiplist, documents, doc_id, read, ret, inserted, contents>>

\* open() or the reading of a line raises an exception other than
\* FileNotFoundError (IsADirectoryError, PermissionError, UnicodeDecodeError,
\* OSError): load_documents catches FileNotFoundError only, so the exception
\* leaves load_documents and InformationRetrievalSystem.__init__, and no
\* system object is bound
ReadError ==
  /\ phase = "loading"
  /\ phase' = "crashed"
  /\ op' = [NoOp EXCEPT !.name = "read_error"]
  /\ ret' = [NoRet EXCEPT !.raised = TRUE]
  /\ calls' = <<>>
  /\ UNCHANGED <<skiplist, documents, doc_id, read, inserted, contents>>

\* ir_system.display_results(query): doc_ids = self.search(query), then the
\* name of every document found; ret keeps what search returned
Search(query) ==
  /\ phase = "ready"
  /\ \E r \in {search(skiplist, query)} : \E shown \in {DisplayNames(documents, r.val)} :
     /\ ret' = [NoRet EXCEPT !.raised = r.raised, !.val = r.val, !.lookups = r.lookups,
                             !.key_error = shown.key_error, !.names = shown.names]
     /\ op' = [NoOp EXCEPT !.name = "search", !.word = query]
  /\ calls' = <<>>
  /\ UNCHANGED <<skiplist, documents, doc_id, phase, read, inserted, contents>>

Next ==
  \/ \E raw \in Lines : \E rnd \in [1..NumWords(raw) -> DrawSeqs(skiplist.max_level)] :
       LoadLine(raw, rnd)
  \/ EndOfFile
  \/ FileNotFound
  \/ ReadError
  \/ \E query \in Queries : Search(query)

Spec == Init /\ [][Next]_vars

-----------------------------------------------------------------------------
(* The SkipList used on its own *)

InitSkipList ==
  /\ skiplist = NewSkipList(MaxLevel, Probability)
  /\ documents = << >>
  /\ doc_id = 0
  /\ phase = "skiplist"
  /\ read = 0
  /\ op = NoOp
  /\ ret = NoRet
  /\ inserted = {}
  /\ calls = <<>>
  /\ contents = <<>>

\* skiplist.insert_word(word, document)
InsertWord(word, document, draws) ==
  /\ phase = "skiplist"
  /\ \E r \in {insert_word(skiplist, word, document, draws)} :
     /\ skiplist' = r.sl
     /\ ret' = [NoRet EXCEPT !.raised = r.raised]
     /\ op' = [NoOp EXCEPT !.name = "insert_word", !.word = word, !.doc = document,
                           !.created = r.created, !.new_level = r.new_level]
     /\ inserted' = IF r.raised THEN inserted ELSE inserted \cup {<<word, document>>}
  /\ calls' = <<<<word, document>>>>
  /\ UNCHANGED <<documents, doc_id, phase, read, contents>>

\* skiplist.search_word(word)
SearchWord(word) ==
  /\ phase \in {"skiplist", "ready"}
  /\ \E r \in {search_word(skiplist, word)} :
     \E l \in ListsOf(r.docs) :
       ret' = [NoRet EXCEPT !.raised = r.raised, !.val = l, !.alias = r.alias]
  /\ op' = [NoOp EXCEPT !.name = "search_word", !.word = word]
  /\ calls' = <<>>
  /\ UNCHANGED <<skiplist, documents, doc_id, phase, read, inserted, contents>>

\* skiplist.range_search(start_word, end_word)
RangeSearch(start_word, end_word) ==
  /\ phase \in {"skiplist", "ready"}
  /\ \E r \in {range_search(skiplist, start_word, end_word)} :
     \E l \in r.lists :
       ret' = [NoRet EXCEPT !.raised = r.raised, !.val = l]
  /\ op' = [NoOp EXCEPT !.name = "range_search", !.word = start_word, !.word2 = end_word]
  /\ calls' = <<>>
  /\ UNCHANGED <<skiplist, documents, doc_id, phase, read, inserted, contents>>

NextSkipList ==
  \/ \E word \in Words, document \in Docs, draws \in DrawSeqs(skiplist.max_level) :
       InsertWord(word, document, draws)
  \/ \E word \in Lookups : SearchWord(word)
  \/ \E r \in Ranges : RangeSearch(r[1], r[2])

SpecSkipList == InitSkipList /\ [][NextSkipList]_vars

-----------------------------------------------------------------------------
(* A caller of the loaded system that also queries its skiplist directly *)
(* and modifies the lists it gets back                                    *)

\* docs.clear() on the list the last search_word, range_search or search
\* returned; the posting set of a node is cleared with it when the returned
\* object is that set
ModifyResult ==
  /\ op.name \in {"search_word", "range_search", "search"}
  /\ ~ret.raised
  /\ ret.val # <<>>
  /\ ret' = NoRet
  /\ skiplist' = IF ret.alias = None THEN skiplist
                 ELSE [skiplist EXCEPT !.nodes[ret.alias].value = {}]
  /\ op' = [NoOp EXCEPT !.name = "modify_result"]
  /\ calls' = <<>>
  /\ UNCHANGED <<documents, doc_id, phase, read, inserted, contents>>

\* the queries, the words and the range this caller looks up
CallerQueries == {<<"a", SPACE, "b">>, <<"b">>, <<"!", SPACE, "-">>}

CallerLookups == {<<"a">>, <<"b">>}

CallerRanges == {<< <<"a">>, <<"b">> >>}

NextCaller ==
  \/ \E raw \in Lines : \E rnd \in [1..NumWords(raw) -> DrawSeqs(skiplist.max_level)] :
       LoadLine(raw, rnd)
  \/ EndOfFile
  \/ FileNotFound
  \/ \E query \in CallerQueries : Search(query)
  \/ \E word \in CallerLookups : SearchWord(word)
  \/ \E r \in CallerRanges : RangeSearch(r[1], r[2])
  \/ ModifyResult

SpecCaller == Init /\ [][NextCaller]_vars

-----------------------------------------------------------------------------
(* The SkipList constructed with arguments of the caller's choice *)

ConfigLevels == {-1, 0, MaxLevel}

\* probabilities in hundredths: 0.0, 0.5 and 1.0
ConfigProbabilities == {0, 50, 100}

\* SkipList(max_level, probability)
InitConfig ==
  /\ \E max_level \in ConfigLevels, probability \in ConfigProbabilities :
       skiplist = NewSkipList(max_level, probability)
  /\ documents = << >>
  /\ doc_id = 0
  /\ phase = "skiplist"
  /\ read = 0
  /\ op = NoOp
  /\ ret = NoRet
  /\ inserted = {}
  /\ calls = <<>>
  /\ contents = <<>>

SpecConfig == InitConfig /\ [][NextSkipList]_vars

-----------------------------------------------------------------------------
(* Properties *)

NoDup(l) == \A i, j \in 1..Len(l) : i # j => l[i] # l[j]

\* the documents d for which (t, d) was inserted
InsertedDocs(t) == {p[2] : p \in {q \in inserted : q[1] = t}}

InsertedTerms == {p[1] : p \in inserted}

\* the walk along forward[k] from the header: the references met, and whether
\* it ended in None without meeting a reference twice
RECURSIVE ChainFrom(_, _, _, _)
ChainFrom(sl, n, k, seen) ==
  IF Len(Node(sl, n).forward) < k + 1 THEN [refs |-> seen, ok |-> FALSE]
  ELSE LET nxt == Node(sl, n).forward[k + 1] IN
       IF nxt = None THEN [refs |-> seen, ok |-> TRUE]
       ELSE IF nxt = Header \/ nxt \in ToSet(seen) \/ nxt \notin DOMAIN sl.nodes
            THEN [refs |-> seen, ok |-> FALSE]
            ELSE ChainFrom(sl, nxt, k, Append(seen, nxt))

Chain(sl, k) == ChainFrom(sl, Header, k, <<>>)

OnLevel(sl, k) == ToSet(Chain(sl, k).refs)

\* the terms present in the index (the keys of the level-0 chain) and the
\* posting set of a term
TermsOf(sl) == {sl.nodes[n].key : n \in OnLevel(sl, 0)}

PostingOf(sl, t) == UNION {sl.nodes[n].value : n \in {m \in OnLevel(sl, 0) : sl.nodes[m].key = t}}

\* the non-empty cleaned tokens of a text, by the tokenization rule
TokensOf(text) == {CleanWord(w) : w \in ToSet(Split(Lower(text)))} \ {<<>>}

\* C1: after any sequence of insert_word calls, search_word(t) returns exactly
\* the documents d for which (t, d) was inserted, the empty result for a term
\* never inserted, and neither insert_word nor search_word raises
C1_LookupCorrect ==
  /\ \A t \in Lookups :
       \A r \in {search_word(skiplist, t)} : ~r.raised /\ r.docs = InsertedDocs(t)
  /\ op.name = "search_word" =>
       /\ ~ret.raised
       /\ ToSet(ret.val) = InsertedDocs(op.word)
       /\ Len(ret.val) = Cardinality(InsertedDocs(op.word))
  /\ op.name = "insert_word" => ~ret.raised

C1_Witness ==
  /\ op.name = "search_word"
  /\ Len(ret.val) = 2
  /\ Cardinality(DOMAIN skiplist.nodes) = 3
  /\ skiplist.level = MaxLevel
  /\ \E t \in Lookups : InsertedDocs(t) = {}

\* C2: search(query) with at least one non-empty cleaned token returns the
\* intersection of search_word(token) over the cleaned tokens, ascending and
\* duplicate-free; every returned document contains every token; a query with
\* a never-inserted token returns []; search("") returns []
C2_AndQuery ==
  op.name = "search" =>
    /\ ~ret.raised
    /\ TokensOf(op.word) # {} =>
         /\ ToSet(ret.val) =
              {d \in 0..(doc_id - 1) :
                 \A t \in TokensOf(op.word) : d \in search_word(skiplist, t).docs}
         /\ \A i, j \in 1..Len(ret.val) : i < j => ret.val[i] < ret.val[j]
         /\ \A d \in ToSet(ret.val) : \A t \in TokensOf(op.word) : <<t, d>> \in inserted
         /\ (\E t \in TokensOf(op.word) : t \notin InsertedTerms) => ret.val = <<>>
    /\ op.word = <<>> => ret.val = <<>>

C2_Witness ==
  /\ op.name = "search"
  /\ Cardinality(TokensOf(op.word)) = 2
  /\ ret.val = <<1>>
  /\ \E t \in TokensOf(op.word) : InsertedDocs(t) = {0, 1}

\* C3: range_search(lo, hi) returns exactly the union of search_word(t) over
\* the inserted terms t with lo <= t <= hi, without duplicates, and the empty
\* result when no inserted term lies in the range, also when lo > hi
RangeDocs(lo, hi) ==
  UNION {search_word(skiplist, t).docs :
           t \in {u \in InsertedTerms : StrLeq(lo, u) /\ StrLeq(u, hi)}}

C3_RangeCorrect ==
  /\ \A r \in Ranges : \A x \in {range_search(skiplist, r[1], r[2])} :
       /\ ~x.raised
       /\ \A l \in x.lists : ToSet(l) = RangeDocs(r[1], r[2]) /\ NoDup(l)
  /\ op.name = "range_search" =>
       /\ ~ret.raised
       /\ ToSet(ret.val) = RangeDocs(op.word, op.word2)
       /\ NoDup(ret.val)
       /\ (\A t \in InsertedTerms : ~(StrLeq(op.word, t) /\ StrLeq(t, op.word2)))
            => ret.val = <<>>

C3_Witness ==
  /\ op.name = "range_search"
  /\ op.word = <<"a">> /\ op.word2 = <<"b">>
  /\ InsertedTerms = Words
  /\ Cardinality(inserted) >= 5
  /\ Len(ret.val) = 2

\* C4: at every level, the walk along forward[k] from the header ends in None
\* without meeting a node twice and visits strictly increasing keys
C4_Sorted ==
  \A k \in 0..skiplist.max_level : \A c \in {Chain(skiplist, k)} :
    /\ c.ok
    /\ \A i \in 1..(Len(c.refs) - 1) :
         StrLess(skiplist.nodes[c.refs[i]].key, skiplist.nodes[c.refs[i + 1]].key)

C4_Witness ==
  /\ op.name = "insert_word"
  /\ op.created
  /\ Len(Chain(skiplist, 0).refs) = 3
  /\ Len(Chain(skiplist, 1).refs) = 2
  /\ op.word = <<"a", "b">>

\* C5: every node on the level-k chain is on the chain of every lower level,
\* and every node ever created is on the level-0 chain
C5_LevelContainment ==
  /\ \A k \in 1..skiplist.level : \A j \in 0..(k - 1) :
       OnLevel(skiplist, k) \subseteq OnLevel(skiplist, j)
  /\ DOMAIN skiplist.nodes \subseteq OnLevel(skiplist, 0)

C5_Witness ==
  /\ op.name = "insert_word"
  /\ op.created
  /\ Cardinality(OnLevel(skiplist, 0)) = 3
  /\ Cardinality(OnLevel(skiplist, 1)) = 2
  /\ Cardinality(OnLevel(skiplist, MaxLevel)) = 1

\* C6: inserting (t, d) again right after inserting it leaves the whole
\* skiplist as it was after the first insertion; inserting (t, d1) into an
\* index without t and then (t, d2), d1 # d2, gives search_word(t) = {d1, d2}
C6_Idempotent ==
  [][(op.name = "insert_word" /\ op'.name = "insert_word" /\ op'.word = op.word) =>
       /\ op'.doc = op.doc => (skiplist' = skiplist /\ ~ret'.raised)
       /\ (op'.doc # op.doc /\ op.created) =>
            \A r \in {search_word(skiplist', op.word)} :
              ~r.raised /\ r.docs = {op.doc, op'.doc}]_vars

C6_Witness ==
  /\ op.name = "insert_word"
  /\ ~op.created
  /\ Cardinality(DOMAIN skiplist.nodes) = 3
  /\ search_word(skiplist, op.word).docs = {op.doc}

\* C7: no insert or lookup is ever performed on an index constructed with
\* max_level < 1 or probability outside (0, 1)
C7_ConfigRejected ==
  op.name \in {"insert_word", "search_word", "range_search"} =>
    /\ skiplist.max_level >= 1
    /\ 0 < skiplist.probability /\ skiplist.probability < 100

\* C8: the tokens inserted when a content is indexed are the tokens looked up
\* when the same text is queried, and a search for the content of an indexed
\* document that has a non-empty token returns that document
C8_SameTokenization ==
  /\ op.name = "load_line" =>
       [i \in 1..Len(calls) |-> calls[i][1]] = search(skiplist, op.word2).lookups
  /\ op.name = "search" =>
       \A d \in 1..Len(contents) :
         (contents[d] = op.word /\ TokensOf(op.word) # {}) => (d - 1) \in ToSet(ret.val)

C8_Witness ==
  /\ op.name = "search"
  /\ op.word = <<"B", "-", "a", "!">>
  /\ Len(contents) = 2
  /\ contents[1] = op.word
  /\ ret.val = <<0>>

\* C9: indexing a document calls insert_word exactly once per distinct cleaned
\* token of the document
C9_OncePerToken ==
  op.name = "load_line" =>
    /\ NoDup(calls)
    /\ ToSet(calls) = {<<t, op.doc>> : t \in TokensOf(op.word2)}

\* C10: across every step no term is lost, every posting set is a superset of
\* what it was, and the current level does not decrease
C10_Monotone ==
  [][\/ skiplist' = skiplist
     \/ /\ \A before \in {OnLevel(skiplist, 0)}, after \in {OnLevel(skiplist', 0)} :
             \A n \in before : \E m \in after :
               /\ skiplist'.nodes[m].key = skiplist.nodes[n].key
               /\ skiplist.nodes[n].value \subseteq skiplist'.nodes[m].value
        /\ skiplist.level <= skiplist'.level]_vars

C10_Witness ==
  /\ op.name = "insert_word"
  /\ op.created
  /\ op.new_level < skiplist.level
  /\ Cardinality(TermsOf(skiplist)) = 3
  /\ \E t \in TermsOf(skiplist) : PostingOf(skiplist, t) = Docs

\* C11: a query whose tokens all clean to empty (the empty query, a query of
\* whitespace, a query of punctuation) makes search return [], raise nothing
\* and look nothing up in the skiplist
C11_EmptyQuery ==
  (op.name = "search" /\ TokensOf(op.word) = {}) =>
    /\ ~ret.raised
    /\ ret.val = <<>>
    /\ ret.lookups = <<>>

C11_Witness ==
  /\ op.name = "search"
  /\ op.word = <<"!", SPACE, "-">>
  /\ Cardinality(TermsOf(skiplist)) >= 2
  /\ ret.val = <<>>
  /\ ret.lookups = <<>>

\* C12: after an ingestion failure (the file is missing, or reading stops after
\* some documents) the index holds exactly the postings of the documents
\* indexed before the failure, every chain is well formed, and the system is
\* there to be searched (the load returned without raising); when the file is
\* missing the index is empty and every search returns []
C12_FailureKeepsIndex ==
  op.name \in {"read_error", "file_not_found"} =>
    /\ TermsOf(skiplist) = InsertedTerms
    /\ \A t \in InsertedTerms : PostingOf(skiplist, t) = InsertedDocs(t)
    /\ \A k \in 0..skiplist.max_level : Chain(skiplist, k).ok
    /\ ~ret.raised
    /\ phase = "ready"
    /\ op.name = "file_not_found" =>
         /\ TermsOf(skiplist) = {}
         /\ \A query \in Queries : search(skiplist, query).val = <<>>

\* C13: insert_word(t, d) on a term already in the index draws no level,
\* creates no node and changes nothing but the posting set of t, which gains d:
\* every forward pointer, the level and every other posting set stay as they were
C13_ExistingTermFrame ==
  [][op'.name = "insert_word" =>
       \A present \in {{n \in OnLevel(skiplist, 0) : skiplist.nodes[n].key = op'.word}} :
         present # {} =>
           /\ ~ret'.raised
           /\ ~op'.created
           /\ op'.new_level = None
           /\ \E n \in present :
                skiplist' = [skiplist EXCEPT !.nodes[n].value = @ \cup {op'.doc}]]_vars

C13_Witness ==
  /\ op.name = "insert_word"
  /\ ~op.created
  /\ op.new_level = None
  /\ Cardinality(TermsOf(skiplist)) = 3
  /\ PostingOf(skiplist, op.word) = Docs
  /\ skiplist.level = MaxLevel

\* the list l without the reference n, in the order of l
Without(l, n) == SelectSeq(l, LAMBDA x : x # n)

\* C14: insert_word(t, d) of a term not in the index, with drawn level L, adds
\* exactly one node, with posting set {d}, on the chains of exactly the levels
\* 0..L; the nodes that were there stay on exactly the levels they were on, in
\* the same order, with their keys and posting sets unchanged; the level
\* becomes max(old level, L)
C14_NewTermFrame ==
  [][(op'.name = "insert_word" /\ op'.word \notin TermsOf(skiplist)) =>
       /\ ~ret'.raised
       /\ op'.created
       /\ op'.new_level \in 0..skiplist.max_level
       /\ \E n \in DOMAIN skiplist'.nodes \ DOMAIN skiplist.nodes :
            /\ DOMAIN skiplist'.nodes = DOMAIN skiplist.nodes \cup {n}
            /\ skiplist'.nodes[n].key = op'.word
            /\ skiplist'.nodes[n].value = {op'.doc}
            /\ \A k \in 0..skiplist.max_level :
                 \A before \in {Chain(skiplist, k)}, after \in {Chain(skiplist', k)} :
                   /\ after.ok
                   /\ Without(after.refs, n) = before.refs
                   /\ n \in ToSet(after.refs) <=> k <= op'.new_level
       /\ \A m \in DOMAIN skiplist.nodes :
            /\ skiplist'.nodes[m].key = skiplist.nodes[m].key
            /\ skiplist'.nodes[m].value = skiplist.nodes[m].value
       /\ skiplist'.level =
            IF op'.new_level > skiplist.level THEN op'.new_level ELSE skiplist.level]_vars

C14_Witness ==
  /\ op.name = "insert_word"
  /\ op.created
  /\ op.word = <<"a", "b">>
  /\ op.new_level = 1
  /\ skiplist.level = MaxLevel
  /\ Len(Chain(skiplist, 0).refs) = 3
  /\ Len(Chain(skiplist, 1).refs) = 3
  /\ \E t \in TermsOf(skiplist) : PostingOf(skiplist, t) = Docs

\* C15: 0 <= level <= max_level always; the header has no successor at any
\* level above the current level; and when the index holds at least one term,
\* the current level is the highest level at which the header has a successor
C15_LevelBounds ==
  /\ 0 <= skiplist.level
  /\ skiplist.level <= skiplist.max_level
  /\ \A k \in (skiplist.level + 1)..skiplist.max_level :
       skiplist.header.forward[k + 1] = None
  /\ skiplist.header.forward[1] # None =>
       skiplist.header.forward[skiplist.level + 1] # None

C15_Witness ==
  /\ op.name = "insert_word"
  /\ op.created
  /\ op.new_level = 0
  /\ skiplist.level = 1
  /\ Cardinality(TermsOf(skiplist)) = 3
  /\ skiplist.header.forward[2] # None
  /\ skiplist.header.forward[3] = None

\* C16: random_level stops after at most max_level promotions for every
\* sequence of draws, also when every draw is below the probability, and
\* returns a level in 0..max_level; the header's forward array has
\* max_level + 1 slots and insert_word never accesses a slot outside it or
\* outside the update vector (such an access would raise)
C16_LevelInRange ==
  /\ \A draws \in DrawSeqs(skiplist.max_level) :
       random_level(skiplist, draws) \in 0..skiplist.max_level
  /\ random_level(skiplist, [i \in 1..(skiplist.max_level + 1) |-> 0]) = skiplist.max_level
  /\ Len(skiplist.header.forward) = skiplist.max_level + 1
  /\ op.name = "insert_word" =>
       /\ ~ret.raised
       /\ op.created =>
            /\ op.new_level \in 0..skiplist.max_level
            /\ \E n \in DOMAIN skiplist.nodes :
                 /\ skiplist.nodes[n].key = op.word
                 /\ Len(skiplist.nodes[n].forward) = op.new_level + 1

C16_Witness ==
  /\ op.name = "insert_word"
  /\ op.created
  /\ op.new_level = skiplist.max_level
  /\ ~ret.raised
  /\ Len(Chain(skiplist, skiplist.max_level).refs) = 2
  /\ Cardinality(TermsOf(skiplist)) = 3

\* C17: search_word, range_search and search change nothing in the index
\* (no node, forward pointer, level or posting set) nor in the registry, and
\* the list they return is a copy: modifying it changes no posting set
C17_ReadOnly ==
  [][op'.name \in {"search_word", "range_search", "search", "modify_result"} =>
       /\ skiplist' = skiplist
       /\ documents' = documents
       /\ doc_id' = doc_id]_vars

C17_Witness ==
  /\ op.name = "modify_result"
  /\ ret.val = <<>>
  /\ Cardinality(TermsOf(skiplist)) = 2
  /\ \A t \in TermsOf(skiplist) : PostingOf(skiplist, t) = {0, 1}

\* the queries of the model that have the same set of non-empty cleaned
\* tokens as the query q
SameTokens == [q \in Queries |-> {p \in Queries : TokensOf(p) = TokensOf(q)}]

\* C18: the result of search depends on the set of the non-empty cleaned
\* tokens of the query only, not on their order or multiplicity: two queries
\* with equal token sets return the same list
C18_OrderIndependent ==
  op.name = "search" =>
    \A q \in SameTokens[op.word] : \A r \in {search(skiplist, q)} :
      /\ r.raised = ret.raised
      /\ r.val = ret.val

C18_Witness ==
  /\ op.name = "search"
  /\ op.word = <<"b", SPACE, "a">>
  /\ ret.val = <<1>>
  /\ search(skiplist, <<"a", SPACE, "b">>).val = <<1>>
  /\ search(skiplist, <<"a", SPACE, "a">>).val = <<0, 1>>
  /\ search(skiplist, <<"-", SPACE, "A">>).val = <<0, 1>>

\* C19: document ids are given densely from 0, in ingestion order, to the
\* non-blank lines (a blank line takes no id, a line without a usable token
\* takes one); the keys of the registry are exactly 0..n-1 for n documents; and
\* every document id in a posting set, hence every id search returns, is a key
\* of the registry, so that display_results finds the name of every result
C19_DenseIds ==
  /\ doc_id = Len(contents)
  /\ DOMAIN documents = 0..(doc_id - 1)
  /\ op.name = "load_line" => op.doc = doc_id - 1
  /\ \A n \in DOMAIN skiplist.nodes : skiplist.nodes[n].value \subseteq DOMAIN documents
  /\ op.name = "search" =>
       /\ ToSet(ret.val) \subseteq DOMAIN documents
       /\ ~ret.key_error
       /\ Len(ret.names) = Len(ret.val)

C19_Witness ==
  /\ op.name = "search"
  /\ doc_id = 2
  /\ contents[1] = <<"-">>
  /\ ret.val = <<1>>
  /\ ret.names = <<DefaultName(1)>>
  /\ DOMAIN documents = {0, 1}
  /\ \A n \in DOMAIN skiplist.nodes : skiplist.nodes[n].value = {1}

\* C20: every node other than the header has a non-empty posting set: a node
\* is created only together with its first document
C20_NonEmptyPostings ==
  \A n \in DOMAIN skiplist.nodes : skiplist.nodes[n].value # {}

C20_Witness ==
  /\ op.name = "insert_word"
  /\ op.created
  /\ Cardinality(DOMAIN skiplist.nodes) = 3
  /\ PostingOf(skiplist, op.word) = {op.doc}
  /\ \E t \in TermsOf(skiplist) : PostingOf(skiplist, t) = Docs

====
